---- MODULE Spec2Model ----
(***************************************************************************)
(* Model of src/app.py: the textbook cost pipeline (map_columns,           *)
(* find_price_column, process_data) and the /process request handler.      *)
(*                                                                         *)
(* Text is a sequence of one-token strings so that substring containment,  *)
(* trimming and stringification are computed, not assumed.  The Chinese    *)
(* labels of the source are transliterated (the parser takes ASCII only):  *)
(*   xuehao = student id, xingming = name, xueyuan = college,              *)
(*   zhuanye = major, xingzhengban = administrative class,                 *)
(*   zhe + houjia = the discount-price marker, zhe = the discount sign.    *)
(***************************************************************************)
EXTENDS Integers, Sequences, FiniteSets, TLC

VARIABLES
    student_file,   \* the student table handed to process_data
    book_file,      \* the book table handed to process_data
    college_name,   \* the keyword handed to process_data
    result,         \* what process_data returned
    phase,          \* "ready" before the run, "done" after it
    form,           \* per request: the uploaded files, their names, keyword
    pc,             \* per request: position in process()
    disk,           \* UPLOAD_FOLDER: path -> file content
    local,          \* per request: the locals of process() and process_data()
    response        \* per request: the JSON answer of process()

vars == <<student_file, book_file, college_name, result, phase,
           form, pc, disk, local, response>>

pipeline_vars == <<student_file, book_file, college_name, result, phase>>
web_vars == << form, pc, disk, local, response>>

----------------------------------------------------------------------------
(* Cells of a spreadsheet: empty, text or number.                          *)

NA == [k |-> "na", s |-> <<>>, n |-> 0]
Str(s) == [k |-> "str", s |-> s, n |-> 0]
Num(n) == [k |-> "num", s |-> <<>>, n |-> n]

IsNA(c) == c.k = "na"
IsStr(c) == c.k = "str"
IsNum(c) == c.k = "num"

(* Column labels.                                                          *)
L_xuehao == <<"xuehao">>
L_xingming == <<"xingming">>
L_xueyuan == <<"xueyuan">>
L_zhuanye == <<"zhuanye">>
L_xingzhengban == <<"xingzhengban">>
L_ISBN == <<"ISBN">>
L_zhehoujia == <<"zhe", "houjia">>

STUDENT_COLUMN_MAP ==
    [c \in {L_xuehao, L_xingming, L_xueyuan, L_zhuanye, L_xingzhengban, L_ISBN}
        |-> c]

BOOK_COLUMN_MAP == [c \in {L_ISBN} |-> c]

Range(f) == {f[i] : i \in DOMAIN f}

(* A table as read_excel returns it: labels (distinct) and rows of cells.  *)
Table(cols, rows) == [exists |-> TRUE, cols |-> cols, rows |-> rows]
NoFile == [exists |-> FALSE, cols |-> <<>>, rows |-> <<>>]

HasCol(df, label) == \E j \in DOMAIN df.cols : df.cols[j] = label
ColIdx(df, label) == CHOOSE j \in DOMAIN df.cols : df.cols[j] = label
Column(df, label) == [i \in DOMAIN df.rows |-> df.rows[i][ColIdx(df, label)]]

----------------------------------------------------------------------------
(* str(), strip(), lower(), "in"                                           *)

Digit(d) == CASE d = 0 -> "0" [] d = 1 -> "1" [] d = 2 -> "2" [] d = 3 -> "3"
              [] d = 4 -> "4" [] d = 5 -> "5" [] d = 6 -> "6" [] d = 7 -> "7"
              [] d = 8 -> "8" [] d = 9 -> "9"

RECURSIVE NatStr(_)
NatStr(n) == IF n < 10 THEN <<Digit(n)>>
             ELSE Append(NatStr(n \div 10), Digit(n % 10))

IntStr(n) == IF n < 0 THEN <<"-">> \o NatStr(0 - n) ELSE NatStr(n)
FloatStr(n) == IntStr(n) \o <<".", "0">>

IsSpace(ch) == ch = " "

RECURSIVE lstrip(_)
lstrip(s) == IF s # <<>> /\ IsSpace(Head(s)) THEN lstrip(Tail(s)) ELSE s

RECURSIVE rstrip(_)
rstrip(s) == IF s # <<>> /\ IsSpace(s[Len(s)])
             THEN rstrip(SubSeq(s, 1, Len(s) - 1)) ELSE s

strip(s) == rstrip(lstrip(s))

lower_ch(ch) == CASE ch = "Discount" -> "discount"
                  [] ch = "DISCOUNT" -> "discount"
                  [] ch = "ISBN" -> "isbn"
                  [] OTHER -> ch

lower(s) == [i \in DOMAIN s |-> lower_ch(s[i])]

(* needle in hay                                                           *)
Contains(hay, needle) ==
    \E i \in 0..(Len(hay) - Len(needle)) :
        \A j \in 1..Len(needle) : hay[i + j] = needle[j]

(* The dtype pandas gives a column: int64 when every cell is a number,     *)
(* float64 when every cell is a number or empty (and one is empty),        *)
(* object otherwise (text present, or no row at all).                      *)
Dtype(col) ==
    IF Len(col) = 0 THEN "object"
    ELSE IF \A i \in DOMAIN col : IsNum(col[i]) THEN "int64"
    ELSE IF \A i \in DOMAIN col : IsNum(col[i]) \/ IsNA(col[i]) THEN "float64"
    ELSE "object"

(* Series.astype(str) of one cell of a column of that dtype.               *)
astype_str(c, dtype) ==
    IF IsNA(c) THEN <<"n", "a", "n">>
    ELSE IF IsStr(c) THEN c.s
    ELSE IF dtype = "float64" THEN FloatStr(c.n)
    ELSE IntStr(c.n)

IsDigit(ch) == ch \in {"0", "1", "2", "3", "4", "5", "6", "7", "8", "9"}

DigitVal(ch) == CHOOSE d \in 0..9 : Digit(d) = ch

RECURSIVE ParseNat(_)
ParseNat(s) == IF s = <<>> THEN 0
               ELSE 10 * ParseNat(SubSeq(s, 1, Len(s) - 1)) + DigitVal(s[Len(s)])

(* pd.to_numeric(errors='coerce') of one cell: a number stays, a text of   *)
(* digits parses, anything else becomes NaN.                               *)
to_numeric(c) ==
    IF IsNum(c) THEN c
    ELSE IF IsStr(c) /\ c.s # <<>> /\ \A i \in DOMAIN c.s : IsDigit(c.s[i])
         THEN Num(ParseNat(c.s))
    ELSE NA

----------------------------------------------------------------------------
(* map_columns: rename by the reversed map, then require every key.        *)

rename_cols(cols, column_map) ==
    [j \in DOMAIN cols |->
        IF \E k \in DOMAIN column_map : column_map[k] = cols[j]
        THEN CHOOSE k \in DOMAIN column_map : column_map[k] = cols[j]
        ELSE cols[j]]

map_columns(df, column_map) ==
    LET df_renamed == [df EXCEPT !.cols = rename_cols(df.cols, column_map)]
        missing_cols == DOMAIN column_map \ Range(df_renamed.cols)
    IN  [ok |-> missing_cols = {}, df |-> df_renamed, missing |-> missing_cols]

(* find_price_column: None is the empty label.                             *)
None == <<>>

marker_test(col) ==
    Contains(col, L_zhehoujia) \/ Contains(lower(col), lower(L_zhehoujia))

discount_test(col) ==
    Contains(col, <<"zhe">>) \/ Contains(lower(col), <<"discount">>)

RECURSIVE first_marker_col(_)
first_marker_col(cols) ==
    IF cols = <<>> THEN None
    ELSE IF marker_test(Head(cols)) THEN Head(cols)
    ELSE first_marker_col(Tail(cols))

discount_cols(cols) == SelectSeq(cols, discount_test)

(* One pass that takes the first column passing either test.              *)
find_price_column_one_pass(df) ==
    LET either == SelectSeq(df.cols, LAMBDA c : marker_test(c) \/ discount_test(c))
    IN  IF either # <<>> THEN either[1] ELSE None

find_price_column(df) ==
    IF first_marker_col(df.cols) # None THEN first_marker_col(df.cols)
    ELSE IF discount_cols(df.cols) # <<>> THEN discount_cols(df.cols)[1]
    ELSE None

----------------------------------------------------------------------------
(* What process_data returns.                                              *)

NoError == [kind |-> "none", keyword |-> <<>>, samples |-> <<>>, missing |-> {}]
NoSummary == [keyword |-> <<>>, matched_colleges |-> <<>>, price_col |-> None,
              total_students |-> 0, total_cost |-> 0,
              mean_cost |-> [num |-> 0, den |-> 0]]

Raise(err) == [success |-> FALSE, error |-> err, summary |-> NoSummary,
               result_df |-> {}, detail_df |-> <<>>]

Error(kind) == [NoError EXCEPT !.kind = kind]
KeyError_missing(cols) == [NoError EXCEPT !.kind = "KeyError: columns not found",
                                          !.missing = cols]
KeyError_price == Error("KeyError: price column not found")
ValueError_no_match(keyword, all_colleges) ==
    [NoError EXCEPT !.kind = "ValueError: no college contains keyword",
                    !.keyword = keyword, !.samples = all_colleges]

NotRun == Raise(Error("not run"))

----------------------------------------------------------------------------
(* read_excel(student_file, usecols=...): only the six known columns.      *)

usecols(label) == label \in Range(STUDENT_COLUMN_MAP)

read_student(file) ==
    LET keep == SelectSeq([j \in DOMAIN file.cols |-> j],
                          LAMBDA j : usecols(file.cols[j]))
    IN  Table([m \in DOMAIN keep |-> file.cols[keep[m]]],
              [i \in DOMAIN file.rows |->
                  [m \in DOMAIN keep |-> file.rows[i][keep[m]]]])

(* Lines 79-81: drop rows with neither id nor ISBN, then stringify and     *)
(* trim both.  A row keeps its index label.                                *)
clean_students(df) ==
    LET id_dtype == Dtype(Column(df, L_xuehao))
        isbn_dtype == Dtype(Column(df, L_ISBN))
        cell(i, label) == df.rows[i][ColIdx(df, label)]
        kept == SelectSeq([i \in DOMAIN df.rows |-> i],
                    LAMBDA i : ~(IsNA(cell(i, L_xuehao)) /\ IsNA(cell(i, L_ISBN))))
    IN  [m \in DOMAIN kept |->
            [index |-> kept[m],
             student_id |-> strip(astype_str(cell(kept[m], L_xuehao), id_dtype)),
             name |-> cell(kept[m], L_xingming),
             college |-> cell(kept[m], L_xueyuan),
             major |-> cell(kept[m], L_zhuanye),
             administrative_class |-> cell(kept[m], L_xingzhengban),
             ISBN |-> strip(astype_str(cell(kept[m], L_ISBN), isbn_dtype)),
             unit_price |-> NA]]

(* Lines 72-73 and 83-86: the ISBN and price columns; drop rows with       *)
(* neither, stringify and trim the ISBN, coerce the price, keep the rows   *)
(* whose price is a number.                                                *)
price_kept(b) == ~IsNA(b.price)

clean_books(df, price_col_name) ==
    LET isbn_dtype == Dtype(Column(df, L_ISBN))
        cell(i, label) == df.rows[i][ColIdx(df, label)]
        kept == SelectSeq([i \in DOMAIN df.rows |-> i],
                    LAMBDA i : ~(IsNA(cell(i, L_ISBN)) /\ IsNA(cell(i, price_col_name))))
        coerced == [m \in DOMAIN kept |->
                      [index |-> kept[m],
                       ISBN |-> strip(astype_str(cell(kept[m], L_ISBN), isbn_dtype)),
                       price |-> to_numeric(cell(kept[m], price_col_name))]]
    IN  SelectSeq(coerced, price_kept)

(* A price map in which the first row of an ISBN wins.                     *)
RECURSIVE price_dict_first_wins(_, _)
price_dict_first_wins(df_book, isbn) ==
    IF df_book = <<>> THEN NA
    ELSE IF Head(df_book).ISBN = isbn THEN Head(df_book).price
    ELSE price_dict_first_wins(Tail(df_book), isbn)

(* dict(zip(ISBN, price)): a later row overwrites an earlier one.          *)
RECURSIVE price_dict(_, _)
price_dict(df_book, isbn) ==
    IF df_book = <<>> THEN NA
    ELSE IF df_book[Len(df_book)].ISBN = isbn THEN df_book[Len(df_book)].price
    ELSE price_dict(SubSeq(df_book, 1, Len(df_book) - 1), isbn)

(* A left join: every student kept, a missing price counted as 0.         *)
join_students_left(df_student, df_book) ==
    [m \in DOMAIN df_student |->
        [df_student[m] EXCEPT !.unit_price =
            IF \E k \in DOMAIN df_book : df_book[k].ISBN = df_student[m].ISBN
            THEN df_book[CHOOSE k \in DOMAIN df_book :
                            df_book[k].ISBN = df_student[m].ISBN].price
            ELSE Num(0)]]

(* Lines 89-94: keep the students whose ISBN is a book's, attach the       *)
(* price, drop the rows left without one.                                  *)
join_students(df_student, df_book) ==
    LET isin == SelectSeq(df_student,
                    LAMBDA r : \E m \in DOMAIN df_book : df_book[m].ISBN = r.ISBN)
        priced == [m \in DOMAIN isin |->
                      [isin[m] EXCEPT !.unit_price = price_dict(df_book, isin[m].ISBN)]]
    IN  SelectSeq(priced, LAMBDA r : ~IsNA(r.unit_price))

----------------------------------------------------------------------------
(* Series.str.contains(pat, na=False): pat is a regular expression         *)
(* (regex=True is the default).  Modelled syntax: "." is any character,    *)
(* "|" separates alternatives, "(" opens a group and ")" closes one; every *)
(* other character is itself.                                              *)

RECURSIVE paren_depth(_, _)
paren_depth(pat, depth) ==
    IF pat = <<>> THEN depth
    ELSE IF Head(pat) = "(" THEN paren_depth(Tail(pat), depth + 1)
    ELSE IF Head(pat) = ")" THEN
        IF depth = 0 THEN -1 ELSE paren_depth(Tail(pat), depth - 1)
    ELSE paren_depth(Tail(pat), depth)

(* re.compile raises on unbalanced parentheses.                            *)
re_compiles(pat) == paren_depth(pat, 0) = 0

(* The alternatives of a pattern without groups, split at "|".             *)
RECURSIVE alternatives(_, _)
alternatives(pat, cur) ==
    IF pat = <<>> THEN {cur}
    ELSE IF Head(pat) = "|" THEN {cur} \cup alternatives(Tail(pat), <<>>)
    ELSE alternatives(Tail(pat), Append(cur, Head(pat)))

match_at(alt, text, i) ==
    \A j \in 1..Len(alt) : alt[j] = "." \/ alt[j] = text[i + j]

re_search(pat, text) ==
    \E alt \in alternatives(pat, <<>>) :
        \E i \in 0..(Len(text) - Len(alt)) : match_at(alt, text, i)

(* One cell: text is searched, anything else gives NaN, which na=False     *)
(* turns into False.                                                       *)
str_contains(c, pat) == IsStr(c) /\ re_search(pat, c.s)

(* The .str accessor is refused unless the column is an object column      *)
(* whose values are text, mixed with text, or all missing.                 *)
str_accessor_ok(cells, dtype) ==
    /\ dtype = "object"
    /\ \/ \A i \in DOMAIN cells : IsNA(cells[i])
       \/ \E i \in DOMAIN cells : IsStr(cells[i])

(* Series.unique(): the distinct values in order of first appearance.      *)
RECURSIVE unique(_)
unique(cells) ==
    IF cells = <<>> THEN <<>>
    ELSE LET init == unique(SubSeq(cells, 1, Len(cells) - 1))
             last == cells[Len(cells)]
         IN  IF \E i \in DOMAIN init : init[i] = last THEN init
             ELSE Append(init, last)

SampleLimit == 10

RECURSIVE sum_price(_)
sum_price(rows) ==
    IF rows = <<>> THEN 0 ELSE rows[1].unit_price.n + sum_price(Tail(rows))

RECURSIVE sum_total(_)
sum_total(S) ==
    IF S = {} THEN 0
    ELSE LET g == CHOOSE g \in S : TRUE
         IN  g.total_cost + sum_total(S \ {g})

group_key(r) == <<r.student_id, r.name, r.college, r.major, r.administrative_class>>

(* groupby([...5 keys...], as_index=False)[price].sum(): rows with a       *)
(* missing key are left out (dropna=True); one row per distinct key.  The  *)
(* table is held as a set: its row order is not modelled.                  *)
groupby_sum(df_filtered) ==
    LET grouped == SelectSeq(df_filtered,
            LAMBDA r : ~IsNA(r.name) /\ ~IsNA(r.college) /\ ~IsNA(r.major)
                       /\ ~IsNA(r.administrative_class))
    IN  {[student_id |-> grouped[m].student_id,
          name |-> grouped[m].name,
          college |-> grouped[m].college,
          major |-> grouped[m].major,
          administrative_class |-> grouped[m].administrative_class,
          total_cost |-> sum_price(SelectSeq(grouped,
                LAMBDA r : group_key(r) = group_key(grouped[m])))]
         : m \in DOMAIN grouped}

(* Lines 115-116: the detail table, each row with its student's total.     *)
detail_table(df_filtered) ==
    [m \in DOMAIN df_filtered |->
        [index |-> df_filtered[m].index,
         student_id |-> df_filtered[m].student_id,
         name |-> df_filtered[m].name,
         college |-> df_filtered[m].college,
         major |-> df_filtered[m].major,
         administrative_class |-> df_filtered[m].administrative_class,
         ISBN |-> df_filtered[m].ISBN,
         unit_price |-> df_filtered[m].unit_price.n,
         personal_total |-> sum_price(SelectSeq(df_filtered,
                LAMBDA r : r.student_id = df_filtered[m].student_id))]]

(* Lines 118-126.                                                          *)
make_summary(keyword, unique_colleges, price_col_name, df_result) ==
    [keyword |-> keyword,
     matched_colleges |-> [i \in DOMAIN unique_colleges |-> unique_colleges[i].s],
     price_col |-> price_col_name,
     total_students |-> Cardinality(df_result),
     total_cost |-> sum_total(df_result),
     mean_cost |-> [num |-> sum_total(df_result), den |-> Cardinality(df_result)]]

(* Lines 99-138, from the joined table on.                                 *)
aggregate(df_student, college_dtype, keyword, price_col_name) ==
    LET colleges == [m \in DOMAIN df_student |-> df_student[m].college]
        df_filtered == SelectSeq(df_student, LAMBDA r : str_contains(r.college, keyword))
        all_colleges == SubSeq(unique(colleges), 1,
                            IF Len(unique(colleges)) < SampleLimit
                            THEN Len(unique(colleges)) ELSE SampleLimit)
        df_result == groupby_sum(df_filtered)
    IN  IF ~str_accessor_ok(colleges, college_dtype)
            THEN Raise(Error("AttributeError: .str accessor"))
        ELSE IF ~re_compiles(keyword)
            THEN Raise(Error("re.error"))
        ELSE IF df_filtered = <<>> THEN
            IF \E i \in DOMAIN all_colleges : ~IsStr(all_colleges[i])
            THEN Raise(Error("TypeError: join expected str"))
            ELSE Raise(ValueError_no_match(keyword,
                        [i \in DOMAIN all_colleges |-> all_colleges[i].s]))
        ELSE [success |-> TRUE, error |-> NoError,
              summary |-> make_summary(keyword,
                            unique([m \in DOMAIN df_filtered |-> df_filtered[m].college]),
                            price_col_name, df_result),
              result_df |-> df_result,
              detail_df |-> detail_table(df_filtered)]

(* The cleaned book table process_data builds from a readable book file.   *)
cleaned_books(book) ==
    LET df == map_columns(book, BOOK_COLUMN_MAP).df
    IN  clean_books(df, find_price_column(df))

(* The joined table process_data builds (line 94).                         *)
joined_students(student, book) ==
    join_students(clean_students(map_columns(read_student(student),
                                             STUDENT_COLUMN_MAP).df),
                  cleaned_books(book))

(* process_data: any exception becomes {"success": False, "error": ...}.   *)
process_data(student, book, keyword) ==
    IF ~student.exists THEN Raise(Error("FileNotFoundError"))
    ELSE LET s == map_columns(read_student(student), STUDENT_COLUMN_MAP) IN
    IF ~s.ok THEN Raise(KeyError_missing(s.missing))
    ELSE IF ~book.exists THEN Raise(Error("FileNotFoundError"))
    ELSE LET b == map_columns(book, BOOK_COLUMN_MAP) IN
    IF ~b.ok THEN Raise(KeyError_missing(b.missing))
    ELSE LET price_col_name == find_price_column(b.df) IN
    IF price_col_name = None THEN Raise(KeyError_price)
    ELSE aggregate(joined_students(student, book),
                   Dtype(Column(s.df, L_xueyuan)), keyword, price_col_name)

----------------------------------------------------------------------------
(* Inputs of the pipeline runs.                                            *)

SeqsUpTo(S, n) == UNION {[1..k -> S] : k \in 0..n}

StudentCols == <<L_xuehao, L_xingming, L_xueyuan, L_zhuanye, L_xingzhengban, L_ISBN>>
BookCols == <<L_ISBN, L_zhehoujia>>

T(ch) == Str(<<ch>>)

MaxJoinStudents == 2
MaxJoinBooks == 2
MaxBookRows == 2
MaxAggStudents == 2
MaxFilterStudents == 2
MaxKeywordLen == 2
MaxBookCols == 3

(* Join runs: ids and ISBNs that are missing, padded or numeric; book rows *)
(* with a missing ISBN or a missing price.                                 *)
JoinStudentRows ==
    {<<id, T("n1"), T("a"), T("m1"), T("c1"), isbn>> :
        id \in {NA, T("s1")},
        isbn \in {NA, Str(<<" ", "1">>), Num(1), T("2")}}

JoinBookRows ==
    {<<isbn, price>> : isbn \in {NA, T("1")}, price \in {NA, Num(50)}}

(* Book runs: prices that are missing, unparseable, non-positive or valid, *)
(* and ISBNs that repeat; two students, one per ISBN.                      *)
BookRows ==
    {<<isbn, price>> :
        isbn \in {NA, T("1"), T("2")},
        price \in {NA, T("x"), Num(0), Num(-5), Num(50), Num(60)}}

TwoStudents == Table(StudentCols,
                     << <<T("s1"), T("n1"), T("a"), T("m1"), T("c1"), T("1")>>,
                        <<T("s2"), T("n2"), T("a"), T("m1"), T("c1"), T("2")>> >>)

(* Aggregation runs: the same id under several names, missing names.       *)
AggStudentRows ==
    {<<T(id), name, T("a"), T("m1"), T("c1"), T(isbn)>> :
        id \in {"s1", "s2"},
        name \in {NA, T("n1"), T("n2")},
        isbn \in {"1", "2"}}

PriceList == Table(BookCols, << <<T("1"), Num(50)>>, <<T("2"), Num(60)>> >>)

(* Filter runs: colleges that are missing or text; keywords with          *)
(* regular-expression characters; ISBN 9 has no price.                     *)
FilterStudentRows ==
    {<<T("s1"), T("n1"), college, T("m1"), T("c1"), T(isbn)>> :
        college \in {NA, T("a"), Str(<<"a", "b">>), T("c")},
        isbn \in {"1", "9"}}

KeywordChars == {"a", "b", ".", "(", "|"}

(* Price-column runs: the book table's labels vary.                        *)
LabelPool ==
    {L_ISBN, L_zhehoujia, <<"zhe", "kou">>, <<"discount", "_price">>,
     <<"Discount">>, <<"shuming">>, <<"zhe", "houjia", "(yuan)">>}

DistinctSeqs(S, n) ==
    {q \in SeqsUpTo(S, n) : \A i, j \in DOMAIN q : i # j => q[i] # q[j]}

(* The one book row of a price-column run: ISBN 1, and in every other      *)
(* column a price that tells the columns apart.                            *)
PoolCell(label) ==
    CASE label = L_ISBN -> T("1")
      [] label = L_zhehoujia -> Num(10)
      [] label = <<"zhe", "kou">> -> Num(20)
      [] label = <<"discount", "_price">> -> Num(30)
      [] label = <<"Discount">> -> Num(40)
      [] label = <<"shuming">> -> T("x")
      [] OTHER -> Num(70)

OneStudent == Table(StudentCols,
                    << <<T("s1"), T("n1"), T("a"), T("m1"), T("c1"), T("1")>> >>)

WebIdle ==
    /\ form = <<>>
    /\ pc = <<>>
    /\ disk = <<>>
    /\ local = <<>>
    /\ response = <<>>

InitJoin ==
    /\ student_file \in {Table(StudentCols, rows) :
                            rows \in SeqsUpTo(JoinStudentRows, MaxJoinStudents)}
    /\ book_file \in {Table(BookCols, rows) :
                            rows \in SeqsUpTo(JoinBookRows, MaxJoinBooks)}
    /\ college_name = <<"a">>
    /\ result = NotRun
    /\ phase = "ready"
    /\ WebIdle

InitBooks ==
    /\ student_file = TwoStudents
    /\ book_file \in {Table(BookCols, rows) :
                            rows \in SeqsUpTo(BookRows, MaxBookRows)}
    /\ college_name = <<"a">>
    /\ result = NotRun
    /\ phase = "ready"
    /\ WebIdle

InitAgg ==
    /\ student_file \in {Table(StudentCols, rows) :
                            rows \in SeqsUpTo(AggStudentRows, MaxAggStudents)}
    /\ book_file = PriceList
    /\ college_name = <<"a">>
    /\ result = NotRun
    /\ phase = "ready"
    /\ WebIdle

InitFilter ==
    /\ student_file \in {Table(StudentCols, rows) :
                            rows \in SeqsUpTo(FilterStudentRows, MaxFilterStudents)}
    /\ book_file = PriceList
    /\ college_name \in SeqsUpTo(KeywordChars, MaxKeywordLen)
    /\ result = NotRun
    /\ phase = "ready"
    /\ WebIdle

InitPrice ==
    /\ student_file = OneStudent
    /\ book_file \in {Table(cols, << [j \in DOMAIN cols |-> PoolCell(cols[j])] >>) :
                            cols \in DistinctSeqs(LabelPool, MaxBookCols)}
    /\ college_name = <<"a">>
    /\ result = NotRun
    /\ phase = "ready"
    /\ WebIdle

(* One run of process_data on the inputs.                                  *)
ProcessData ==
    /\ phase = "ready"
    /\ result' = process_data(student_file, book_file, college_name)
    /\ phase' = "done"
    /\ UNCHANGED <<student_file, book_file, college_name>>
    /\ UNCHANGED web_vars

NextPipeline == ProcessData

SpecJoin == InitJoin /\ [][NextPipeline]_vars
SpecBooks == InitBooks /\ [][NextPipeline]_vars
SpecAgg == InitAgg /\ [][NextPipeline]_vars
SpecFilter == InitFilter /\ [][NextPipeline]_vars
SpecPrice == InitPrice /\ [][NextPipeline]_vars

----------------------------------------------------------------------------
(* Properties of a pipeline run.                                           *)

Done == phase = "done"
Succeeded == Done /\ result.success

RECURSIVE sum_detail(_)
sum_detail(rows) ==
    IF rows = <<>> THEN 0 ELSE rows[1].unit_price + sum_detail(Tail(rows))

DetailOf(student_id) ==
    SelectSeq(result.detail_df, LAMBDA d : d.student_id = student_id)

(* C1: after a successful run, total_students is the number of distinct    *)
(* student ids in the group-summary table.                                 *)
C1_TotalStudentsCountsDistinctIds ==
    Succeeded =>
        result.summary.total_students
            = Cardinality({g.student_id : g \in result.result_df})

(* C2: after a successful run, every group-summary row's total_cost is the *)
(* sum of unit_price over all detail rows with the same student id.        *)
C2_TotalCostSumsStudentDetail ==
    Succeeded =>
        \A g \in result.result_df :
            g.total_cost = sum_detail(DetailOf(g.student_id))

(* The student table as cleaned (lines 79-81) and the book table as        *)
(* cleaned (lines 83-86) in the run.                                       *)
CleanStudents ==
    clean_students(map_columns(read_student(student_file), STUDENT_COLUMN_MAP).df)
CleanBooks == cleaned_books(book_file)
BookIsbns == {CleanBooks[m].ISBN : m \in DOMAIN CleanBooks}

StudentAt(index) ==
    CleanStudents[CHOOSE m \in DOMAIN CleanStudents : CleanStudents[m].index = index]

CompleteKeys(d) ==
    ~IsNA(d.name) /\ ~IsNA(d.college) /\ ~IsNA(d.major) /\ ~IsNA(d.administrative_class)

(* C3: no row of the detail or group-summary output is built from a        *)
(* unit_price <= 0, because book rows with a non-positive or unparseable   *)
(* price are dropped in cleaning.                                          *)
C3_NoNonPositivePrice ==
    Done =>
        \A i \in DOMAIN result.detail_df : result.detail_df[i].unit_price > 0

(* C6: after a successful run, every detail row comes from a student row   *)
(* whose trimmed, stringified ISBN is in the cleaned book set, every       *)
(* group-summary row sums such rows only, and so do the summary totals.    *)
C6_AbsentIsbnNeverAppears ==
    Succeeded =>
        /\ \A i \in DOMAIN result.detail_df :
              StudentAt(result.detail_df[i].index).ISBN \in BookIsbns
        /\ \A g \in result.result_df :
              g.total_cost = sum_detail(SelectSeq(result.detail_df,
                    LAMBDA d : group_key(d) = group_key(g)
                               /\ StudentAt(d.index).ISBN \in BookIsbns))
        /\ result.summary.total_cost = sum_detail(SelectSeq(result.detail_df,
                    LAMBDA d : CompleteKeys(d) /\ StudentAt(d.index).ISBN \in BookIsbns))

(* A run that succeeded although one student row's ISBN has no cleaned     *)
(* book row.                                                               *)
C6_Witness ==
    /\ Succeeded
    /\ \E m \in DOMAIN CleanStudents : CleanStudents[m].ISBN \notin BookIsbns
    /\ result.detail_df # <<>>

LastRowOf(isbn) ==
    CHOOSE m \in DOMAIN CleanBooks :
        /\ CleanBooks[m].ISBN = isbn
        /\ \A k \in DOMAIN CleanBooks : CleanBooks[k].ISBN = isbn => k <= m

(* C8: after a successful run, the unit_price of every detail row is the   *)
(* price of the last cleaned book row, in table order, with its ISBN.      *)
C8_LastBookRowWins ==
    Succeeded =>
        \A i \in DOMAIN result.detail_df :
            result.detail_df[i].unit_price
                = CleanBooks[LastRowOf(result.detail_df[i].ISBN)].price.n

(* A successful run whose detail holds an ISBN priced twice, differently.  *)
C8_Witness ==
    /\ Succeeded
    /\ \E i \in DOMAIN result.detail_df :
        \E m, k \in DOMAIN CleanBooks :
            /\ m < k
            /\ CleanBooks[m].ISBN = result.detail_df[i].ISBN
            /\ CleanBooks[k].ISBN = result.detail_df[i].ISBN
            /\ CleanBooks[m].price # CleanBooks[k].price

RawStudentCell(index, label) ==
    student_file.rows[index][ColIdx(student_file, label)]

(* C10: no output row comes from a student row whose ISBN cell is empty    *)
(* while its student id is present.                                        *)
C10_EmptyIsbnNeverAppears ==
    Done =>
        \A i \in DOMAIN result.detail_df :
            ~(/\ IsNA(RawStudentCell(result.detail_df[i].index, L_ISBN))
              /\ ~IsNA(RawStudentCell(result.detail_df[i].index, L_xuehao)))

Min(S) == CHOOSE x \in S : \A y \in S : x <= y

MarkerCols == {j \in DOMAIN book_file.cols : marker_test(book_file.cols[j])}
WeakCols == {j \in DOMAIN book_file.cols : discount_test(book_file.cols[j])}

(* C7: the price column is the first label holding the discount-price      *)
(* marker if there is one, else the first label holding the discount sign  *)
(* or "discount" in any case, and with neither the run fails with the      *)
(* missing-price-column error.  Checked on runs whose book table has an    *)
(* ISBN column; the run reports the column it took and totals its prices.  *)
C7_PricePassesInPriorityOrder ==
    (Done /\ HasCol(book_file, L_ISBN)) =>
        IF MarkerCols # {} THEN
            /\ result.success
            /\ result.summary.price_col = book_file.cols[Min(MarkerCols)]
            /\ result.summary.total_cost = PoolCell(book_file.cols[Min(MarkerCols)]).n
        ELSE IF WeakCols # {} THEN
            /\ result.success
            /\ result.summary.price_col = book_file.cols[Min(WeakCols)]
            /\ result.summary.total_cost = PoolCell(book_file.cols[Min(WeakCols)]).n
        ELSE result = Raise(KeyError_price)

(* A run where a column passing only the weaker test precedes a column     *)
(* holding the marker, and the marker column was taken.                    *)
C7_Witness ==
    /\ Succeeded
    /\ \E i, j \in DOMAIN book_file.cols :
        /\ i < j
        /\ discount_test(book_file.cols[i])
        /\ ~marker_test(book_file.cols[i])
        /\ marker_test(book_file.cols[j])
        /\ \A k \in 1..(j - 1) : ~marker_test(book_file.cols[k])
        /\ result.summary.price_col = book_file.cols[j]

(* The joined table of the run, before the college filter.                 *)
Joined == joined_students(student_file, book_file)
JoinedColleges == [m \in DOMAIN Joined |-> Joined[m].college]

LiteralKept ==
    SelectSeq(Joined, LAMBDA r : IsStr(r.college) /\ Contains(r.college.s, college_name))

Indexes(rows) == [i \in DOMAIN rows |-> rows[i].index]

(* C4: the filter keeps exactly the joined rows whose college is text that *)
(* contains the keyword as a literal substring: the run fails when there   *)
(* is none, and otherwise its detail table holds exactly those rows.       *)
C4_FilterIsLiteralSubstring ==
    Done =>
        IF LiteralKept = <<>> THEN ~result.success
        ELSE result.success /\ Indexes(result.detail_df) = Indexes(LiteralKept)

(* The filter of the run was evaluated and kept no row.                    *)
FilterKeptNothing ==
    /\ str_accessor_ok(JoinedColleges,
            Dtype(Column(read_student(student_file), L_xueyuan)))
    /\ re_compiles(college_name)
    /\ SelectSeq(Joined, LAMBDA r : str_contains(r.college, college_name)) = <<>>

CollegeNames ==
    LET names == SelectSeq(unique(JoinedColleges), IsStr)
    IN  [i \in 1..(IF Len(names) < SampleLimit THEN Len(names) ELSE SampleLimit)
            |-> names[i].s]

(* C5: when the filter keeps no row, the run fails without tables and its  *)
(* error is the no-match error carrying the keyword and the first (up to   *)
(* 10) distinct college names of the joined table.                         *)
C5_EmptyFilterGivesNoMatchError ==
    (Done /\ FilterKeptNothing) =>
        result = Raise(ValueError_no_match(college_name, CollegeNames))

----------------------------------------------------------------------------
(* The /process handler.  Requests run in threads of one server process    *)
(* and share UPLOAD_FOLDER; each file operation is one step.               *)

NumRequests == 2
NumTimes == 2
Requests == 1..NumRequests

(* A character outside ASCII is written "U+...".                           *)
NonAscii == {"U+5B66", "U+6559"}

RECURSIVE strip_dots(_)
strip_dots(s) ==
    IF s # <<>> /\ Head(s) \in {".", "_"} THEN strip_dots(Tail(s))
    ELSE IF s # <<>> /\ s[Len(s)] \in {".", "_"}
        THEN strip_dots(SubSeq(s, 1, Len(s) - 1))
    ELSE s

(* werkzeug's secure_filename on names without separators or blanks: the   *)
(* non-ASCII characters go, then leading and trailing dots and underscores.*)
secure_filename(filename) ==
    strip_dots(SelectSeq(filename, LAMBDA ch : ch \notin NonAscii))

(* filename.endswith(('.xlsx', '.xls'))                                    *)
is_excel(filename) ==
    /\ Len(filename) >= 2
    /\ filename[Len(filename) - 1] = "."
    /\ filename[Len(filename)] \in {"xlsx", "xls"}

student_path(r) == secure_filename(form[r].student_name)
book_path(r) == secure_filename(form[r].book_name)
output_path(keyword, t) == <<"tongji_">> \o keyword \o <<"_", Digit(t), ".", "xlsx">>

Content(table, report) == [table |-> table, report |-> report]

exists(path) == path \in DOMAIN disk
read_excel(path) == IF exists(path) THEN disk[path].table ELSE NoFile
written(path, content) ==
    [q \in DOMAIN disk \cup {path} |-> IF q = path THEN content ELSE disk[q]]
removed(d, path) == [q \in DOMAIN d \ {path} |-> d[q]]

NoLocal == [student_read |-> NoFile, result |-> NotRun, paths_set |-> FALSE,
            download_url |-> <<>>]
NoResponse == [success |-> FALSE, error |-> NoError, summary |-> NoSummary,
               download_url |-> <<>>]

jsonify_error(kind) == [NoResponse EXCEPT !.error = Error(kind)]
jsonify_result(res) == [NoResponse EXCEPT !.error = res.error]
jsonify_success(res, url) ==
    [success |-> TRUE, error |-> NoError, summary |-> res.summary, download_url |-> url]

(* What the requests upload: request r sends its own two tables.           *)
StudentNames == {<<"s", ".", "xlsx">>, <<"U+5B66", "s", ".", "xlsx">>,
                 <<"t", ".", "xlsx">>, <<>>}
BookNames == {<<"b", ".", "xlsx">>, <<"U+6559", ".", "xlsx">>, <<"b", ".", "csv">>}
Keywords == {<<"a">>, <<" ">>}

StudentUpload(r) ==
    Table(StudentCols,
          << <<Str(<<"s", Digit(r)>>), T("n1"), T("a"), T("m1"), T("c1"), T("1")>> >>)
BookUpload(r) == Table(BookCols, << <<T("1"), Num(50 + r)>> >>)

InitWeb ==
    /\ form \in [Requests -> [student_name : StudentNames, book_name : BookNames,
                              college_name : Keywords]]
    /\ pc = [r \in Requests |-> "validate"]
    /\ disk = <<>>
    /\ local = [r \in Requests |-> NoLocal]
    /\ response = [r \in Requests |-> NoResponse]
    /\ student_file = NoFile
    /\ book_file = NoFile
    /\ college_name = <<>>
    /\ result = NotRun
    /\ phase = "idle"

keyword(r) == strip(form[r].college_name)

Goto(r, label) == pc' = [pc EXCEPT ![r] = label]

(* Lines 162-195: the early returns, then the two paths.  Every request   *)
(* of InitWeb carries both file fields and files under the 10 MB limit,    *)
(* so the returns of lines 163 and 189 are not taken.                      *)
Validate(r) ==
    /\ pc[r] = "validate"
    /\ IF keyword(r) = <<>> THEN
            /\ response' = [response EXCEPT ![r] = jsonify_error("keyword required")]
            /\ Goto(r, "finally")
            /\ UNCHANGED local
       ELSE IF form[r].student_name = <<>> \/ form[r].book_name = <<>> THEN
            /\ response' = [response EXCEPT ![r] = jsonify_error("file required")]
            /\ Goto(r, "finally")
            /\ UNCHANGED local
       ELSE IF ~(is_excel(form[r].student_name) /\ is_excel(form[r].book_name)) THEN
            /\ response' = [response EXCEPT ![r] = jsonify_error("not an Excel file")]
            /\ Goto(r, "finally")
            /\ UNCHANGED local
       ELSE /\ local' = [local EXCEPT ![r].paths_set = TRUE]
            /\ Goto(r, "save_student")
            /\ UNCHANGED response
    /\ UNCHANGED <<form, disk>>
    /\ UNCHANGED pipeline_vars

(* Line 197.                                                               *)
SaveStudent(r) ==
    /\ pc[r] = "save_student"
    /\ disk' = written(student_path(r), Content(StudentUpload(r), NotRun))
    /\ Goto(r, "save_book")
    /\ UNCHANGED <<form, local, response>>
    /\ UNCHANGED pipeline_vars

(* Line 198.                                                               *)
SaveBook(r) ==
    /\ pc[r] = "save_book"
    /\ disk' = written(book_path(r), Content(BookUpload(r), NotRun))
    /\ Goto(r, "read_student")
    /\ UNCHANGED <<form, local, response>>
    /\ UNCHANGED pipeline_vars

(* Lines 51-57 of process_data: read the student file; a failure here      *)
(* ends process_data before the book file is opened.                       *)
ReadStudent(r) ==
    /\ pc[r] = "read_student"
    /\ LET df == read_excel(student_path(r))
           res == process_data(df, NoFile, keyword(r))
       IN  IF ~df.exists \/ ~map_columns(read_student(df), STUDENT_COLUMN_MAP).ok THEN
                /\ local' = [local EXCEPT ![r].result = res]
                /\ response' = [response EXCEPT ![r] = jsonify_result(res)]
                /\ Goto(r, "finally")
           ELSE /\ local' = [local EXCEPT ![r].student_read = df]
                /\ Goto(r, "read_book")
                /\ UNCHANGED response
    /\ UNCHANGED <<form, disk>>
    /\ UNCHANGED pipeline_vars

(* Lines 63-146 of process_data: read the book file and compute.           *)
ReadBook(r) ==
    /\ pc[r] = "read_book"
    /\ LET res == process_data(local[r].student_read, read_excel(book_path(r)),
                               keyword(r))
       IN  /\ local' = [local EXCEPT ![r].result = res]
           /\ IF res.success THEN
                    /\ Goto(r, "write_output")
                    /\ UNCHANGED response
              ELSE  /\ response' = [response EXCEPT ![r] = jsonify_result(res)]
                    /\ Goto(r, "finally")
    /\ UNCHANGED <<form, disk>>
    /\ UNCHANGED pipeline_vars

(* Lines 207-220: the report file, named by keyword and clock second; the *)
(* second is whatever datetime.now() gives when the step runs.             *)
WriteOutput(r) ==
    /\ pc[r] = "write_output"
    /\ \E t \in 1..NumTimes :
        /\ disk' = written(output_path(keyword(r), t), Content(NoFile, local[r].result))
        /\ local' = [local EXCEPT ![r].download_url = output_path(keyword(r), t)]
    /\ Goto(r, "remove_student")
    /\ UNCHANGED <<form, response>>
    /\ UNCHANGED pipeline_vars

(* Line 224; a missing file raises and the bare except skips the rest.     *)
RemoveStudent(r) ==
    /\ pc[r] = "remove_student"
    /\ IF exists(student_path(r)) THEN
            /\ disk' = removed(disk, student_path(r))
            /\ Goto(r, "remove_book")
            /\ UNCHANGED response
       ELSE /\ response' = [response EXCEPT ![r] =
                    jsonify_success(local[r].result, local[r].download_url)]
            /\ Goto(r, "finally")
            /\ UNCHANGED disk
    /\ UNCHANGED <<form, local>>
    /\ UNCHANGED pipeline_vars

(* Lines 225-237.                                                          *)
RemoveBook(r) ==
    /\ pc[r] = "remove_book"
    /\ IF exists(book_path(r)) THEN
            /\ disk' = removed(disk, book_path(r))
            /\ local' = [local EXCEPT ![r].paths_set = FALSE]
       ELSE UNCHANGED <<disk, local>>
    /\ response' = [response EXCEPT ![r] =
            jsonify_success(local[r].result, local[r].download_url)]
    /\ Goto(r, "finally")
    /\ UNCHANGED form
    /\ UNCHANGED pipeline_vars

(* Lines 245-254.                                                          *)
Finally(r) ==
    /\ pc[r] = "finally"
    /\ disk' = IF local[r].paths_set
               THEN removed(removed(disk, student_path(r)), book_path(r))
               ELSE disk
    /\ Goto(r, "done")
    /\ UNCHANGED <<form, local, response>>
    /\ UNCHANGED pipeline_vars

NextWeb ==
    \E r \in Requests :
        \/ Validate(r)
        \/ SaveStudent(r)
        \/ SaveBook(r)
        \/ ReadStudent(r)
        \/ ReadBook(r)
        \/ WriteOutput(r)
        \/ RemoveStudent(r)
        \/ RemoveBook(r)
        \/ Finally(r)

SpecWeb == InitWeb /\ [][NextWeb]_vars

(* What request r answers when it runs with no other request: its student  *)
(* file is its own upload unless its own book upload took the same path.   *)
OwnResult(r) ==
    process_data(IF student_path(r) = book_path(r) THEN BookUpload(r)
                 ELSE StudentUpload(r),
                 BookUpload(r), keyword(r))

Accepted(r) ==
    /\ keyword(r) # <<>>
    /\ is_excel(form[r].student_name)
    /\ is_excel(form[r].book_name)

(* C9: under every interleaving of two requests, the answer of each is     *)
(* computed from its own two uploads and its own keyword only.             *)
C9_RequestsAreIndependent ==
    \A r \in Requests :
        (pc[r] = "done" /\ Accepted(r)) =>
            /\ response[r].success = OwnResult(r).success
            /\ response[r].error = OwnResult(r).error
            /\ response[r].summary = OwnResult(r).summary

====
